---- MODULE Spec2Model ----
(***************************************************************************)
(* A model of pure_protobuf/dataclasses_.py: the field resolution engine   *)
(* (get_optional, get_repeated, make_field), the descriptor compiler       *)
(* (message), the schema text renderer (to_proto), Message.dump and the    *)
(* OneOf accessor.                                                         *)
(***************************************************************************)
EXTENDS Integers, Sequences, FiniteSets, TLC

VARIABLES
    declared,          \* record classes whose @dataclass declaration has run
    dataclass_fields,  \* dataclasses.fields(cls): the declared (name, number, type_) triples
    inner_classes,     \* the classes found in vars(cls), in class-body order
    registered,        \* classes message() has finished with (Message.register, cls.serializer)
    protobuf_fields,   \* cls.__protobuf_fields__: an insertion-ordered dict number -> Field
    call,              \* the last call made: which operation, on which class
    raised,            \* the exception that call raised, NoExc when it returned
    out,               \* the text the last to_proto call returned
    arg,               \* the (number, name, type_) given to make_field
    ret,               \* what make_field returned or raised
    values,            \* the message instance being dumped: its fields' values, in order
    sink,              \* the bytes in the io object, one token per field written
    sink_at_call,      \* the bytes that were in the io object when dump was called
    entry,             \* the method the caller called: "dump" or "dumps"
    status,            \* "idle", "running", "returned" or "raised"
    pc,                \* the statement of Message.dump that runs next
    next_field,        \* the field serializer.dump writes next
    validated,         \* whether self.validate() has returned during this call
    result,            \* what dumps() gave its caller
    one_of_fields,     \* OneOf.fields: the member field names, in declared order
    attrs,             \* the message instance's attributes, by member name
    last_set,          \* the member assigned most recently
    got                \* what the last read of the OneOf returned

msgVars == <<declared, dataclass_fields, inner_classes, registered, protobuf_fields,
             call, raised, out>>
fieldVars == <<arg, ret>>
dumpVars == <<values, sink, sink_at_call, entry, status, pc, next_field, validated, result>>
oneofVars == <<one_of_fields, attrs, last_set, got>>

\* ------------------------------------------------------------------ bounds

MaxNumber == 2
MaxFields == 2
MaxIndent == 1
MaxNestedFields == 1
MaxInner == 1
MaxDumpFields == 2
MaxValue == 2

\* ----------------------------------------------------------- Python values

None == <<"None">>
Str(s) == <<"str", s>>

\* What an f-string writes for a value: str(None) is "None", a str is itself.
Format(v) == IF v = None THEN "None" ELSE v[2]

NoExc == "no exception"
Raise(e) == [raised |-> e]
Return(v) == [raised |-> NoExc, value |-> v]
Pending == [raised |-> "not called"]

Min(S) == CHOOSE x \in S : \A y \in S : x <= y

\* ------------------------------------------------------------ type universe

Classes == {"A", "B", "C"}
IntEnums == {"Color"}
FieldNames == <<"a", "b", "c", "d">>

\* A declared type: a plain type (k = "base", named n), or a typing construct over
\* the member types a.  typing flattens Optional[Union[..]] into one Union.
Base(n) == [k |-> "base", n |-> n, a |-> {}]
NoneType == Base("NoneType")
ListOf(t) == [k |-> "List", n |-> "", a |-> {t}]
IterableOf(t) == [k |-> "Iterable", n |-> "", a |-> {t}]
UnionOf(S) == [k |-> "Union", n |-> "", a |-> S]
OptionalOf(t) == IF t.k = "Union" THEN UnionOf(t.a \cup {NoneType}) ELSE UnionOf({t, NoneType})

\* ------------------------------------------------------ registry (the tables)

Ser(c) == [cls |-> c]

SERIALIZERS ==
    "bool" :> Ser("BooleanSerializer")
 @@ "bytes" :> Ser("bytes_serializer")
 @@ "ByteString" :> Ser("bytes_serializer")
 @@ "float" :> Ser("FloatSerializer")
 @@ "int" :> Ser("signed_varint_serializer")
 @@ "str" :> Ser("StringSerializer")
 @@ "double" :> Ser("DoubleSerializer")
 @@ "fixed32" :> Ser("UnsignedFixed32Serializer")
 @@ "fixed64" :> Ser("UnsignedFixed64Serializer")
 @@ "sfixed32" :> Ser("SignedFixed32Serializer")
 @@ "sfixed64" :> Ser("SignedFixed64Serializer")
 @@ "sint32" :> Ser("SignedInt32Serializer")
 @@ "sint64" :> Ser("SignedInt64Serializer")
 @@ "uint32" :> Ser("UnsignedInt32Serializer")
 @@ "uint64" :> Ser("UnsignedInt64Serializer")
 @@ "uint" :> Ser("unsigned_varint_serializer")
 @@ "UInt32Value" :> Ser("UnsignedInt32Serializer")
 @@ "BoolValue" :> Ser("BooleanSerializer")
 @@ "StringValue" :> Ser("StringSerializer")

PYTHON_TO_PROTOBUF_TYPES ==
    "bool" :> "bool"
 @@ "bytes" :> "str"
 @@ "ByteString" :> "str"
 @@ "float" :> "float"
 @@ "int" :> "int32"
 @@ "str" :> "string"
 @@ "double" :> "double"
 @@ "fixed32" :> "fixed32"
 @@ "fixed64" :> "fixed64"
 @@ "sfixed32" :> "sfixed32"
 @@ "sfixed64" :> "sfixed64"
 @@ "sint32" :> "sint32"
 @@ "sint64" :> "sint64"
 @@ "uint32" :> "uint32"
 @@ "uint64" :> "uint64"
 @@ "uint" :> "uint32"
 @@ "UInt32Value" :> "google.protobuf.UInt32Value"
 @@ "BoolValue" :> "google.protobuf.BoolValue"
 @@ "StringValue" :> "google.protobuf.StringValue"

\* The serializer classes of pure_protobuf.serializers: MessageSerializer(cls) keeps
\* the record type as type_, PackingSerializer(inner) keeps the wrapped serializer as
\* inner, IntEnumSerializer(enum) keeps the enumeration as type_.
MessageSerializer(cls) == [cls |-> "MessageSerializer", type_ |-> cls]
PackingSerializer(inner) == [cls |-> "PackingSerializer", inner |-> inner]
IntEnumSerializer(enum) == [cls |-> "IntEnumSerializer", type_ |-> enum]

HasAttr(obj, attr) == attr \in DOMAIN obj

\* serializer.wire_type, per serializer class.
wire_type(serializer) ==
    CASE serializer.cls \in {"bytes_serializer", "StringSerializer", "PackingSerializer",
                             "MessageSerializer"} -> "BYTES"
      [] serializer.cls \in {"FloatSerializer", "UnsignedFixed32Serializer",
                             "SignedFixed32Serializer"} -> "BITS_32"
      [] serializer.cls \in {"DoubleSerializer", "UnsignedFixed64Serializer",
                             "SignedFixed64Serializer"} -> "BITS_64"
      [] OTHER -> "VARINT"

\* ------------------------------------------------------- type shape analyzer

get_optional_any_union(type_) ==
    IF type_.k = "Union" /\ type_.a \ {NoneType} # {}
    THEN <<TRUE, CHOOSE x \in type_.a \ {NoneType} : TRUE>>
    ELSE <<FALSE, type_>>

get_optional(type_) ==
    IF type_.k = "Union" /\ Cardinality(type_.a) = 2 /\ NoneType \in type_.a
    THEN <<TRUE, CHOOSE x \in type_.a \ {NoneType} : TRUE>>
    ELSE <<FALSE, type_>>

get_repeated(type_) ==
    IF type_.k \in {"List", "Iterable"}
    THEN <<TRUE, CHOOSE x \in type_.a : TRUE>>
    ELSE <<FALSE, type_>>

\* ------------------------------------------------- field descriptor builder

\* make_field, lines 169-182: the serializer of the unwrapped type.  reg is the set
\* of classes registered with Message (each has its serializer attribute).
select_serializer(type_, reg) ==
    IF type_.k = "base" /\ type_.n \in reg
    THEN Return(PackingSerializer(MessageSerializer(type_.n)))
    ELSE IF type_.k = "base" /\ type_.n \in IntEnums
    THEN Return(IntEnumSerializer(type_.n))
    ELSE IF type_.k = "base" /\ type_.n \in DOMAIN SERIALIZERS
    THEN Return(SERIALIZERS[type_.n])
    ELSE Raise("TypeError")

\* make_field, lines 184-191: the name the field's type is rendered with.
protobuf_type_of(serializer, type_) ==
    IF HasAttr(serializer, "inner")
    THEN Str(serializer.inner.type_)
    ELSE IF type_.k = "base" /\ type_.n \in DOMAIN PYTHON_TO_PROTOBUF_TYPES
    THEN Str(PYTHON_TO_PROTOBUF_TYPES[type_.n])
    ELSE None

NonRepeatedField(number, name, serializer, is_optional, proto_type) ==
    [cls |-> "NonRepeatedField", number |-> number, name |-> name,
     serializer |-> serializer, is_optional |-> is_optional, proto_type |-> proto_type]
PackedRepeatedField(number, name, serializer, proto_type) ==
    [cls |-> "PackedRepeatedField", number |-> number, name |-> name,
     serializer |-> serializer, is_optional |-> FALSE, proto_type |-> proto_type]
UnpackedRepeatedField(number, name, serializer, proto_type) ==
    [cls |-> "UnpackedRepeatedField", number |-> number, name |-> name,
     serializer |-> serializer, is_optional |-> FALSE, proto_type |-> proto_type]

choose_field_always_packed(number, name, serializer, is_optional, is_repeated, proto_type) ==
    IF ~is_repeated
    THEN NonRepeatedField(number, name, serializer, is_optional, proto_type)
    ELSE PackedRepeatedField(number, name, serializer, proto_type)

\* make_field, lines 193-202: the field class chosen from the shape and the wire type.
choose_field(number, name, serializer, is_optional, is_repeated, proto_type) ==
    IF ~is_repeated
    THEN NonRepeatedField(number, name, serializer, is_optional, proto_type)
    ELSE IF wire_type(serializer) # "BYTES"
    THEN PackedRepeatedField(number, name, serializer, proto_type)
    ELSE UnpackedRepeatedField(number, name, serializer, proto_type)

make_field(number, name, type_, reg) ==
    LET opt == get_optional(type_)
        rep == get_repeated(opt[2])
        sel == select_serializer(rep[2], reg)
    IN  IF sel.raised # NoExc
        THEN sel
        ELSE Return(<<number,
                      choose_field(number, name, sel.value, opt[1], rep[1],
                                   protobuf_type_of(sel.value, rep[2]))>>)

\* ------------------------------------------------------------- Python dict

HasKey(d, k) == \E i \in DOMAIN d : d[i][1] = k

\* d[k] = v on an insertion-ordered dict: a key already there keeps its place.
DictSet(d, k, v) ==
    IF HasKey(d, k)
    THEN [i \in DOMAIN d |-> IF d[i][1] = k THEN <<k, v>> ELSE d[i]]
    ELSE Append(d, <<k, v>>)

RECURSIVE DictFrom(_, _)
DictFrom(d, pairs) ==
    IF pairs = <<>> THEN d
    ELSE DictFrom(DictSet(d, Head(pairs)[1], Head(pairs)[2]), Tail(pairs))

RECURSIVE SortedInsert(_, _)
SortedInsert(d, p) ==
    IF d = <<>> THEN <<p>>
    ELSE IF p[1] < Head(d)[1] THEN <<p>> \o d
    ELSE <<Head(d)>> \o SortedInsert(Tail(d), p)

RECURSIVE dict_sorted_by_number(_)
dict_sorted_by_number(pairs) ==
    IF pairs = <<>> THEN <<>>
    ELSE LET rest == dict_sorted_by_number(Tail(pairs))
         IN  IF HasKey(rest, Head(pairs)[1]) THEN rest ELSE SortedInsert(rest, Head(pairs))

\* dict(pairs), as message() builds __protobuf_fields__ (line 141).
dict(pairs) == DictFrom(<<>>, pairs)

\* ------------------------------------------------ message descriptor compiler

\* The generator message() hands to dict(): make_field on every declared field, in
\* declaration order.
made_fields(cls, reg) ==
    [i \in DOMAIN dataclass_fields[cls] |->
        make_field(dataclass_fields[cls][i].number, dataclass_fields[cls][i].name,
                   dataclass_fields[cls][i].type_, reg)]

\* The record classes a declared type names.
RECURSIVE ClassRefs(_)
ClassRefs(type_) ==
    IF type_.k = "base" THEN {type_.n} \cap Classes
    ELSE UNION {ClassRefs(t) : t \in type_.a}

\* get_type_hints(cls), line 138: a forward reference to a class that does not exist
\* yet cannot be resolved.
get_type_hints(cls) ==
    IF \E i \in DOMAIN dataclass_fields[cls] :
          ~(ClassRefs(dataclass_fields[cls][i].type_) \subseteq declared)
    THEN Raise("NameError")
    ELSE Return([i \in DOMAIN dataclass_fields[cls] |-> dataclass_fields[cls][i].type_])

\* message(cls): returns the descriptor, or raises what get_type_hints or the first
\* failing make_field raised, before anything is assigned to cls.
message(cls, reg) ==
    LET made == made_fields(cls, reg)
        failed == {i \in DOMAIN made : made[i].raised # NoExc}
    IN  IF get_type_hints(cls).raised # NoExc
        THEN get_type_hints(cls)
        ELSE IF failed # {}
        THEN made[Min(failed)]
        ELSE Return(dict([i \in DOMAIN made |-> made[i].value]))

\* ------------------------------------------------------ schema text renderer

Indent == 4

\* A text is the sequence of its lines; a line is its leading spaces and what follows.
HeaderLine(name) ==
    [indent |-> 0, kind |-> "message", repeated |-> "", type |-> "", name |-> name, number |-> 0]
CloseLine ==
    [indent |-> 0, kind |-> "}", repeated |-> "", type |-> "", name |-> "", number |-> 0]
FieldLine(repeated, type, name, number) ==
    [indent |-> Indent, kind |-> "field", repeated |-> repeated, type |-> type,
     name |-> name, number |-> number]

\* f"{' ' * n}{text}": the spaces go in front of the text's first line only.
Prefixed(n, text) == [i \in DOMAIN text |-> IF i = 1 THEN [text[i] EXCEPT !.indent = @ + n] ELSE text[i]]

\* "\n".join(texts)
RECURSIVE Join(_)
Join(texts) == IF texts = <<>> THEN <<>> ELSE Head(texts) \o Join(Tail(texts))

add_repeated_unpacked_only(field_) ==
    IF field_.cls = "UnpackedRepeatedField" THEN "repeated " ELSE ""

_add_repeated(field_) ==
    IF field_.cls = "UnpackedRepeatedField" \/ field_.cls = "PackedRepeatedField"
    THEN "repeated " ELSE ""

\* Line 126: one line per item of __protobuf_fields__, in the dict's order.
field_lines(fields) ==
    [i \in DOMAIN fields |->
        <<FieldLine(_add_repeated(fields[i][2]), Format(fields[i][2].proto_type),
                    fields[i][2].name, fields[i][1])>>]

RECURSIVE to_proto(_, _)
to_proto(cls, indent_level) ==
    LET inners == inner_classes[cls]
        \* Line 125: a class in vars(cls) that message() never finished has no to_proto.
        inner_texts == [i \in DOMAIN inners |->
                           IF inners[i] \in registered
                           THEN to_proto(inners[i], indent_level + 1)
                           ELSE Raise("AttributeError")]
        failed == {i \in DOMAIN inners : inner_texts[i].raised # NoExc}
        msg_lines == <<<<HeaderLine(cls)>>>>
                     \o [i \in DOMAIN inners |-> inner_texts[i].value]
                     \o field_lines(protobuf_fields[cls])
                     \o <<<<CloseLine>>>>
    IN  IF failed # {}
        THEN inner_texts[Min(failed)]
        ELSE Return(Join([i \in DOMAIN msg_lines |->
                             Prefixed(Indent * indent_level, msg_lines[i])]))

\* ------------------------------------------------------------------ inputs

FieldsOf(n, opts) ==
    {[i \in 1..n |-> [name |-> FieldNames[i], number |-> f[i].number, type_ |-> f[i].type_]] :
        f \in [1..n -> opts]}

TypeSample ==
    {Base("str"), Base("Color"), OptionalOf(Base("str")),
     ListOf(Base("str")), ListOf(Base("uint32")),
     UnionOf({Base("int"), Base("str")}),
     OptionalOf(UnionOf({Base("int"), Base("str")})),
     ListOf(OptionalOf(Base("int")))}

Decls == UNION {FieldsOf(n, [number : 1..MaxNumber, type_ : TypeSample]) : n \in 0..MaxFields}

NestedTypes == {Base("str")} \cup {Base(c) : c \in Classes}

NestedDecls == UNION {FieldsOf(n, [number : {1}, type_ : NestedTypes]) : n \in 0..MaxNestedFields}

\* The sequences of at most MaxInner distinct classes of S.
InnerSeqs(S) ==
    {q \in UNION {[1..n -> S] : n \in 0..MaxInner} : \A i, j \in DOMAIN q : i # j => q[i] # q[j]}

ScalarTypes == DOMAIN SERIALIZERS
BaseNames == ScalarTypes \cup IntEnums \cup Classes \cup {"dict"}
UnionMembers == {"int", "str", "bytes"}
Unions == {UnionOf({Base(n) : n \in S}) : S \in {T \in SUBSET UnionMembers : Cardinality(T) = 2}}

FieldTypes ==
    {Base(n) : n \in BaseNames}
    \cup {OptionalOf(Base(n)) : n \in BaseNames}
    \cup {ListOf(Base(n)) : n \in BaseNames}
    \cup {IterableOf(Base(n)) : n \in BaseNames}
    \cup {OptionalOf(ListOf(Base(n))) : n \in BaseNames}
    \cup {ListOf(OptionalOf(Base(n))) : n \in BaseNames}
    \cup Unions
    \cup {OptionalOf(u) : u \in Unions}

\* ------------------------------------------------------------------ actions

NoCall == [op |-> "none", cls |-> "", indent_level |-> 0]

InitMsg ==
    /\ declared = {}
    /\ dataclass_fields = [c \in Classes |-> <<>>]
    /\ inner_classes = [c \in Classes |-> <<>>]
    /\ registered = {}
    /\ protobuf_fields = [c \in Classes |-> <<>>]
    /\ call = NoCall
    /\ raised = NoExc
    /\ out = Pending

InitField ==
    /\ arg = [number |-> 0, name |-> "", type_ |-> NoneType]
    /\ ret = Pending

\* @dataclass class cls: the class body has run (inner classes first), message() not yet.
Dataclass(cls, fields, inners) ==
    /\ cls \notin declared
    /\ declared' = declared \cup {cls}
    /\ dataclass_fields' = [dataclass_fields EXCEPT ![cls] = fields]
    /\ inner_classes' = [inner_classes EXCEPT ![cls] = inners]
    /\ call' = [op |-> "dataclass", cls |-> cls, indent_level |-> 0]
    /\ raised' = NoExc
    /\ UNCHANGED <<registered, protobuf_fields, out>>

DeclareRecord ==
    /\ \E fields \in Decls : Dataclass("A", fields, <<>>)
    /\ UNCHANGED <<fieldVars, dumpVars, oneofVars>>

DeclareNested ==
    /\ \E cls \in Classes, fields \in NestedDecls, inners \in InnerSeqs(declared) :
          Dataclass(cls, fields, inners)
    /\ UNCHANGED <<fieldVars, dumpVars, oneofVars>>

\* message(cls)
Message ==
    /\ \E cls \in declared :
          LET r == message(cls, registered)
          IN  /\ call' = [op |-> "message", cls |-> cls, indent_level |-> 0]
              /\ raised' = r.raised
              /\ IF r.raised = NoExc
                 THEN /\ protobuf_fields' = [protobuf_fields EXCEPT ![cls] = r.value]
                      /\ registered' = registered \cup {cls}
                 ELSE UNCHANGED <<protobuf_fields, registered>>
    /\ UNCHANGED <<declared, dataclass_fields, inner_classes, out, fieldVars, dumpVars,
                   oneofVars>>

\* cls.to_proto(indent_level)
ToProto ==
    /\ \E cls \in registered, indent_level \in 0..MaxIndent :
          LET r == to_proto(cls, indent_level)
          IN  /\ call' = [op |-> "to_proto", cls |-> cls, indent_level |-> indent_level]
              /\ raised' = r.raised
              /\ out' = r
    /\ UNCHANGED <<declared, dataclass_fields, inner_classes, registered, protobuf_fields,
                   fieldVars, dumpVars, oneofVars>>

\* make_field(number, name, type_) on its own, for any declared type.
MakeField ==
    /\ ret = Pending
    /\ ret' = make_field(arg.number, arg.name, arg.type_, registered)
    /\ UNCHANGED <<arg, msgVars, dumpVars, oneofVars>>

\* ------------------------------------------------------ Message.dump / dumps

\* The statements of Message.dump, lines 45-46, in order.
dump_body_serialize_first == <<"serialize", "validate">>

dump_body == <<"validate", "serialize">>

\* A field's value: "ok" satisfies its serializer's validate, "bad" does not (an
\* enumeration value that is no member), "absent" is None in an optional field.
FieldValues == {"ok", "bad", "absent"}

\* serializer.validate(self): every field's value must satisfy its serializer.
serializer_validate(message_) ==
    IF \E i \in DOMAIN message_ : message_[i] = "bad" THEN Raise("ValueError") ELSE Return(None)

InitDump ==
    /\ values = <<>>
    /\ sink = <<>>
    /\ sink_at_call = <<>>
    /\ entry = "none"
    /\ status = "idle"
    /\ pc = 0
    /\ next_field = 0
    /\ validated = FALSE
    /\ result = Pending

\* message.dump(io) on an io object that may hold bytes already.
CallDump ==
    /\ status = "idle"
    /\ entry' = "dump"
    /\ status' = "running"
    /\ pc' = 1
    /\ sink_at_call' = sink
    /\ UNCHANGED <<values, sink, next_field, validated, result, msgVars, fieldVars, oneofVars>>

\* message.dumps(): a fresh BytesIO, then self.dump(io).
CallDumps ==
    /\ status = "idle"
    /\ entry' = "dumps"
    /\ status' = "running"
    /\ pc' = 1
    /\ sink' = <<>>
    /\ sink_at_call' = <<>>
    /\ UNCHANGED <<values, next_field, validated, result, msgVars, fieldVars, oneofVars>>

\* self.validate()
Validate ==
    /\ status = "running"
    /\ pc \in DOMAIN dump_body
    /\ dump_body[pc] = "validate"
    /\ IF serializer_validate(values).raised # NoExc
       THEN /\ status' = "raised"
            /\ result' = IF entry = "dumps" THEN serializer_validate(values) ELSE result
            /\ UNCHANGED <<pc, validated>>
       ELSE /\ validated' = TRUE
            /\ pc' = pc + 1
            /\ UNCHANGED <<status, result>>
    /\ UNCHANGED <<values, sink, sink_at_call, entry, next_field, msgVars, fieldVars, oneofVars>>

\* self.serializer.dump(self, io) begins: the first field is next.
SerializeBegin ==
    /\ status = "running"
    /\ pc \in DOMAIN dump_body
    /\ dump_body[pc] = "serialize"
    /\ next_field = 0
    /\ next_field' = 1
    /\ UNCHANGED <<values, sink, sink_at_call, entry, status, pc, validated, result,
                   msgVars, fieldVars, oneofVars>>

\* serializer.dump writes one field: nothing for an absent value, the field's bytes
\* for a valid one; on a value its serializer does not accept the encoder either
\* raises or writes what it makes of it.
SerializeField ==
    /\ status = "running"
    /\ pc \in DOMAIN dump_body
    /\ dump_body[pc] = "serialize"
    /\ next_field \in DOMAIN values
    /\ \/ /\ values[next_field] = "absent"
          /\ next_field' = next_field + 1
          /\ UNCHANGED <<sink, status, result>>
       \/ /\ values[next_field] \in {"ok", "bad"}
          /\ sink' = Append(sink, next_field)
          /\ next_field' = next_field + 1
          /\ UNCHANGED <<status, result>>
       \/ /\ values[next_field] = "bad"
          /\ status' = "raised"
          /\ result' = IF entry = "dumps" THEN Raise("ValueError") ELSE result
          /\ UNCHANGED <<sink, next_field>>
    /\ UNCHANGED <<values, sink_at_call, entry, pc, validated, msgVars, fieldVars, oneofVars>>

\* serializer.dump has written the last field.
SerializeEnd ==
    /\ status = "running"
    /\ pc \in DOMAIN dump_body
    /\ dump_body[pc] = "serialize"
    /\ next_field = Len(values) + 1
    /\ pc' = pc + 1
    /\ next_field' = 0
    /\ UNCHANGED <<values, sink, sink_at_call, entry, status, validated, result,
                   msgVars, fieldVars, oneofVars>>

\* dump returns; dumps returns io.getvalue().
DumpReturn ==
    /\ status = "running"
    /\ pc = Len(dump_body) + 1
    /\ status' = "returned"
    /\ result' = IF entry = "dumps" THEN Return(sink) ELSE result
    /\ UNCHANGED <<values, sink, sink_at_call, entry, pc, next_field, validated,
                   msgVars, fieldVars, oneofVars>>

\* ------------------------------------------------------------------ OneOf

Members == {"x", "y", "z"}
IntValue(i) == <<"int", i>>
MemberValues == {None} \cup {IntValue(i) : i \in 1..MaxValue}

RECURSIVE OneOf_get_last_set(_, _)
OneOf_get_last_set(fields, message_) ==
    IF fields = <<>> THEN None
    ELSE IF message_[fields[Len(fields)]] # None THEN message_[fields[Len(fields)]]
    ELSE OneOf_get_last_set(SubSeq(fields, 1, Len(fields) - 1), message_)

\* OneOf.__get__(message_): the first member value that is not None.
RECURSIVE OneOf_get(_, _)
OneOf_get(fields, message_) ==
    IF fields = <<>> THEN None
    ELSE IF message_[Head(fields)] # None THEN message_[Head(fields)]
    ELSE OneOf_get(Tail(fields), message_)

InitOneOf ==
    /\ one_of_fields = <<>>
    /\ attrs = [m \in Members |-> None]
    /\ last_set = ""
    /\ got = Pending

\* setattr(message_, name, value): a plain attribute, nothing else is cleared.
SetAttr ==
    /\ \E name \in Members, value \in MemberValues :
          /\ attrs' = [attrs EXCEPT ![name] = value]
          /\ last_set' = name
    /\ got' = Pending
    /\ UNCHANGED <<one_of_fields, msgVars, fieldVars, dumpVars>>

\* message_.group, for the descriptor group = OneOf(*fields)
Get ==
    /\ got' = Return(OneOf_get(one_of_fields, attrs))
    /\ UNCHANGED <<one_of_fields, attrs, last_set, msgVars, fieldVars, dumpVars>>

\* ----------------------------------------------------------- specifications

vars == <<msgVars, fieldVars, dumpVars, oneofVars>>

Init == InitMsg /\ InitField /\ InitDump /\ InitOneOf
Next == DeclareRecord \/ Message \/ ToProto
Spec == Init /\ [][Next]_vars

NextNested == DeclareNested \/ Message \/ ToProto
SpecNested == Init /\ [][NextNested]_vars

\* Any set of record classes may already be compiled when make_field is called.
InitMakeField ==
    /\ registered \in SUBSET Classes
    /\ declared = registered
    /\ dataclass_fields = [c \in Classes |-> <<>>]
    /\ inner_classes = [c \in Classes |-> <<>>]
    /\ protobuf_fields = [c \in Classes |-> <<>>]
    /\ call = NoCall
    /\ raised = NoExc
    /\ out = Pending
    /\ arg \in [number : 1..MaxNumber, name : {"a"}, type_ : FieldTypes]
    /\ ret = Pending
    /\ InitDump
    /\ InitOneOf
NextField == MakeField
SpecField == InitMakeField /\ [][NextField]_vars

\* Any instance of at most MaxDumpFields fields, and an io object that is empty or not.
InitDumpCall ==
    /\ InitMsg
    /\ InitField
    /\ InitOneOf
    /\ values \in UNION {[1..n -> FieldValues] : n \in 0..MaxDumpFields}
    /\ sink \in {<<>>, <<0>>}
    /\ sink_at_call = sink
    /\ entry = "none"
    /\ status = "idle"
    /\ pc = 0
    /\ next_field = 0
    /\ validated = FALSE
    /\ result = Pending
NextDump == CallDump \/ CallDumps \/ Validate \/ SerializeBegin \/ SerializeField
            \/ SerializeEnd \/ DumpReturn
SpecDump == InitDumpCall /\ [][NextDump]_vars

\* Any OneOf over distinct member fields of a fresh instance.
InitOneOfGroup ==
    /\ InitMsg
    /\ InitField
    /\ InitDump
    /\ one_of_fields \in {q \in UNION {[1..n -> Members] : n \in 1..Cardinality(Members)} :
                            \A i, j \in DOMAIN q : i # j => q[i] # q[j]}
    /\ attrs = [m \in Members |-> None]
    /\ last_set = ""
    /\ got = Pending
NextOneOf == SetAttr \/ Get
SpecOneOf == InitOneOfGroup /\ [][NextOneOf]_vars

\* ------------------------------------------------------------- properties

Numbers(fields) == [i \in DOMAIN fields |-> fields[i].number]
DistinctNumbers(fields) ==
    \A i, j \in DOMAIN fields : i # j => fields[i].number # fields[j].number
IsFieldLine(line) == line.kind = "field"
OwnFieldLines(text) == SelectSeq(text, IsFieldLine)
Rendered == call.op = "to_proto" /\ raised = NoExc
Compiled(cls) == call.op = "message" /\ call.cls = cls

\* C1: a record definition in which some field number occurs twice is rejected by
\* message(): the call raises and the class gets no descriptor.
ClaimC1_DuplicateNumberRejected ==
    (call.op = "message" /\ ~DistinctNumbers(dataclass_fields[call.cls]))
        => (raised # NoExc /\ call.cls \notin registered)

\* C2: for a record with distinct field numbers, to_proto() emits exactly one field
\* line per declared field, in declaration order (never sorted by number), and
\* __protobuf_fields__ iterates in that same order.
TheoremC2_DeclarationOrder ==
    (Rendered /\ DistinctNumbers(dataclass_fields[call.cls])) =>
        LET fields == dataclass_fields[call.cls]
            lines == OwnFieldLines(out.value)
            items == protobuf_fields[call.cls]
        IN  /\ Len(lines) = Len(fields)
            /\ Len(items) = Len(fields)
            /\ \A i \in DOMAIN fields :
                  /\ lines[i].name = fields[i].name
                  /\ lines[i].number = fields[i].number
                  /\ items[i][1] = fields[i].number
                  /\ items[i][2].name = fields[i].name

WitnessC2_OutOfOrderRendered ==
    /\ Rendered
    /\ call.cls = "A"
    /\ Numbers(dataclass_fields[call.cls]) = <<2, 1>>
    /\ Len(OwnFieldLines(out.value)) = 2

\* C3: every field line is "[repeated ]<schema_type_name> <name> = <number>;", with
\* "repeated " there exactly when the field is Packed-repeated or Unpacked-repeated.
TheoremC3_RepeatedKeyword ==
    Rendered =>
        LET lines == OwnFieldLines(out.value)
            items == protobuf_fields[call.cls]
        IN  /\ Len(lines) = Len(items)
            /\ \A i \in DOMAIN items :
                  /\ lines[i].repeated \in {"", "repeated "}
                  /\ (lines[i].repeated = "repeated ") <=>
                        (items[i][2].cls \in {"PackedRepeatedField", "UnpackedRepeatedField"})
                  /\ (items[i][2].cls = "NonRepeatedField") => lines[i].repeated = ""
                  /\ lines[i].type = Format(items[i][2].proto_type)
                  /\ lines[i].name = items[i][2].name
                  /\ lines[i].number = items[i][1]

WitnessC3_PackedAndUnpackedRendered ==
    /\ Rendered
    /\ \E i, j \in DOMAIN protobuf_fields[call.cls] :
          /\ protobuf_fields[call.cls][i][2].cls = "PackedRepeatedField"
          /\ OwnFieldLines(out.value)[i].repeated = "repeated "
          /\ protobuf_fields[call.cls][j][2].cls = "UnpackedRepeatedField"
          /\ OwnFieldLines(out.value)[j].repeated = "repeated "

\* The analyzer's answers, read off the declared type.
IsOptionalForm(type_) == type_.k = "Union" /\ Cardinality(type_.a) = 2 /\ NoneType \in type_.a
Unwrapped(type_) == IF IsOptionalForm(type_) THEN CHOOSE t \in type_.a : t # NoneType ELSE type_
IsRepeatedForm(type_) == Unwrapped(type_).k \in {"List", "Iterable"}
ElementType(type_) ==
    IF IsRepeatedForm(type_) THEN CHOOSE t \in Unwrapped(type_).a : TRUE ELSE Unwrapped(type_)

\* A union of several members that is not exactly {T, None}, or a list of a union.
UnsupportedUnion(type_) ==
    \/ type_.k = "Union" /\ ~IsOptionalForm(type_)
    \/ IsRepeatedForm(type_) /\ ElementType(type_).k = "Union"

HasUnsupportedUnion(fields) == \E i \in DOMAIN fields : UnsupportedUnion(fields[i].type_)

\* C5: a field declared as a multi-member union other than {T, None}, or as a list of
\* Optional[T], makes message() raise; no branch is picked and no descriptor is built.
TheoremC5_UnionRejected ==
    \A cls \in declared :
        HasUnsupportedUnion(dataclass_fields[cls]) =>
            /\ cls \notin registered
            /\ protobuf_fields[cls] = <<>>
            /\ Compiled(cls) => raised = "TypeError"

WitnessC5_UnionRaised ==
    /\ call.op = "message"
    /\ raised = "TypeError"
    /\ \E i \in DOMAIN dataclass_fields[call.cls] :
          dataclass_fields[call.cls][i].type_ = ListOf(OptionalOf(Base("int")))
    /\ \A i \in DOMAIN dataclass_fields[call.cls] :
          dataclass_fields[call.cls][i].type_ \in {ListOf(OptionalOf(Base("int"))), Base("str")}

\* The types whose encoding is length-delimited: text, bytes, nested messages.
LengthDelimited(type_) ==
    type_.k = "base" /\ type_.n \in {"str", "bytes", "ByteString", "StringValue"} \cup registered

\* C4: make_field picks one shape: Singular or Optional as the analyzer says for a
\* non-repeated field; for a repeated one Unpacked exactly when the strategy's wire
\* type is length-delimited (text, bytes, nested message) and Packed otherwise.
TheoremC4_ShapeChoice ==
    ret.raised = NoExc =>
        LET field_ == ret.value[2] IN
        /\ field_.cls \in {"NonRepeatedField", "PackedRepeatedField", "UnpackedRepeatedField"}
        /\ ~IsRepeatedForm(arg.type_) =>
              /\ field_.cls = "NonRepeatedField"
              /\ field_.is_optional = get_optional(arg.type_)[1]
        /\ IsRepeatedForm(arg.type_) =>
              /\ (field_.cls = "UnpackedRepeatedField") <=> (wire_type(field_.serializer) = "BYTES")
              /\ (field_.cls = "PackedRepeatedField") <=> (wire_type(field_.serializer) # "BYTES")
              /\ (field_.cls = "UnpackedRepeatedField") <=> LengthDelimited(ElementType(arg.type_))

WitnessC4_UnpackedNested ==
    /\ ret.raised = NoExc
    /\ arg.type_ = ListOf(Base("A"))
    /\ ret.value[2].cls = "UnpackedRepeatedField"

\* C6: for every field make_field accepts the schema type name is a real name, never
\* None: the nested record's class name, the registry keyword of a scalar or wrapper
\* type, the enumeration's name.
ClaimC6_SchemaTypeNameNeverNone ==
    ret.raised = NoExc =>
        LET field_ == ret.value[2]
            base == ElementType(arg.type_)
        IN  /\ field_.proto_type # None
            /\ base.n \in registered => field_.proto_type = Str(base.n)
            /\ base.n \in IntEnums => field_.proto_type = Str(base.n)
            /\ base.n \in ScalarTypes => field_.proto_type = Str(PYTHON_TO_PROTOBUF_TYPES[base.n])

\* Whether every line from the i-th on sits at its nesting depth: a "message X {" line
\* and its "}" at 4*d spaces, the field lines between them at 4*(d+1).
RECURSIVE WellIndentedFrom(_, _, _)
WellIndentedFrom(text, i, depth) ==
    IF i > Len(text) THEN TRUE
    ELSE CASE text[i].kind = "message" ->
                text[i].indent = Indent * depth /\ WellIndentedFrom(text, i + 1, depth + 1)
           [] text[i].kind = "field" ->
                text[i].indent = Indent * depth /\ WellIndentedFrom(text, i + 1, depth)
           [] OTHER ->
                text[i].indent = Indent * (depth - 1) /\ WellIndentedFrom(text, i + 1, depth - 1)

\* C7: to_proto renders the inner message types before the field lines, each block one
\* level (4 spaces) deeper than the block around it, at every nesting depth.
ClaimC7_NestedIndentation ==
    (Rendered /\ call.indent_level = 0) => WellIndentedFrom(out.value, 1, 0)

\* C8: message() succeeds on a record whose fields name record types that exist but
\* whose descriptors are not built yet (itself, or a type that refers back to it).
ClaimC8_UnbuiltReferenceTolerated ==
    (/\ call.op = "message"
     /\ \A i \in DOMAIN dataclass_fields[call.cls] :
           ClassRefs(dataclass_fields[call.cls][i].type_) \subseteq declared)
        => (raised = NoExc /\ call.cls \in registered)

HasBad == \E i \in DOMAIN values : values[i] = "bad"

\* C9: dump validates the whole instance before it writes: no byte reaches the sink
\* before validate has returned, and when a value fails validation the call raises,
\* the sink is left as it was, and dumps() returns no bytes.
TheoremC9_ValidateBeforeWrite ==
    /\ sink # sink_at_call => validated
    /\ (HasBad /\ status # "idle") =>
          /\ sink = sink_at_call
          /\ status # "returned"
          /\ result.raised # NoExc
    /\ (HasBad /\ status = "raised" /\ entry = "dumps") => result = Raise("ValueError")

WitnessC9_RaisedBeforeWrite ==
    /\ status = "raised"
    /\ values = <<"ok", "bad">>
    /\ sink = sink_at_call
    /\ ~validated

\* The value the claim expects from a read: that of the earliest declared member that
\* is not None, None when there is none.
IsFirstSet(fields, message_, value) ==
    \/ /\ \A i \in DOMAIN fields : message_[fields[i]] = None
       /\ value = None
    \/ \E i \in DOMAIN fields :
          /\ message_[fields[i]] # None
          /\ \A j \in 1..(i - 1) : message_[fields[j]] = None
          /\ value = message_[fields[i]]

\* C10: reading a OneOf returns the first member, in declared order, whose value is
\* not None (None when all are), whatever was assigned last, and the read changes
\* neither the instance nor the group.
TheoremC10_FirstNonNone ==
    /\ [](got # Pending => IsFirstSet(one_of_fields, attrs, got.value))
    /\ [][got' # Pending => (attrs' = attrs /\ one_of_fields' = one_of_fields)]_vars

WitnessC10_NotTheLastSet ==
    /\ got # Pending
    /\ Len(one_of_fields) >= 2
    /\ last_set = one_of_fields[2]
    /\ attrs[one_of_fields[1]] # None
    /\ attrs[one_of_fields[2]] # None
    /\ attrs[one_of_fields[2]] # attrs[one_of_fields[1]]
    /\ got.value = attrs[one_of_fields[1]]

====
